---- MODULE Spec2Model ----
(***************************************************************************)
(* Model of the Learnova AI backend (src/app.py): the Flask request        *)
(* handlers, the upload directory and the syllabus store behind them.      *)
(*                                                                         *)
(* A filename or a text is a sequence of one-character strings, so that    *)
(* rsplit, lower, slicing and concatenation are computed character by      *)
(* character.  Handlers run concurrently (one worker per request); a       *)
(* handler is cut into steps at its calls on shared state: the file save,  *)
(* the text extraction, the syllabus store.                                *)
(***************************************************************************)
EXTENDS Integers, Sequences, FiniteSets, TLC

VARIABLES
    req,      \* worker -> the request it handles: route, inputs, position, response
    disk,     \* the upload directory: stored path -> file content
    store,    \* the syllabus materials held by the AI processor
    started,  \* number of requests received so far
    listed,   \* history: the material sets listed since the last add_syllabus_materials
    fn_in,    \* input of the pure function under check
    fn_out    \* its result

vars == <<req, disk, store, started, listed, fn_in, fn_out>>

----------------------------------------------------------------------------
(* Bounds *)

\* number of concurrent workers
Workers == 2
\* number of requests one behaviour receives
MaxRequests == 3
\* number of dot-separated parts of a filename tried against allowed_file
MaxParts == 3
\* text lengths tried lie within Slack of 0, of a limit, or of MaxText
Slack == 2
\* the longest text tried
MaxText == 1500

----------------------------------------------------------------------------
(* Strings *)

Ellipsis == <<".", ".", ".">>

UpperCase == {"A", "C", "D", "E", "F", "G", "J", "N", "O", "P", "T", "X"}

\* str.lower() on one character
LowerChar(c) ==
    CASE c = "A" -> "a" [] c = "C" -> "c" [] c = "D" -> "d" [] c = "E" -> "e"
      [] c = "F" -> "f" [] c = "G" -> "g" [] c = "J" -> "j" [] c = "N" -> "n"
      [] c = "O" -> "o" [] c = "P" -> "p" [] c = "T" -> "t" [] c = "X" -> "x"
      [] OTHER -> c

\* str.lower()
Lower(s) == [i \in 1..Len(s) |-> LowerChar(s[i])]

\* '.' in filename
HasDot(s) == \E i \in 1..Len(s) : s[i] = "."

\* index of the last '.' of s, 0 when there is none: where rsplit('.', 1) cuts
RECURSIVE LastDotFrom(_, _)
LastDotFrom(s, i) ==
    IF i = 0 THEN 0
    ELSE IF s[i] = "." THEN i
    ELSE LastDotFrom(s, i - 1)

\* index of the first '.' of s, 0 when there is none: where split('.', 1) cuts
RECURSIVE FirstDotFrom(_, _)
FirstDotFrom(s, i) ==
    IF i > Len(s) THEN 0
    ELSE IF s[i] = "." THEN i
    ELSE FirstDotFrom(s, i + 1)

\* filename.rsplit('.', 1)[1], for a filename that holds a '.'
RSplitExt(s) == SubSeq(s, LastDotFrom(s, Len(s)) + 1, Len(s))

\* filename.split('.', 1)[1]: everything after the first '.'
SplitExt(s) == SubSeq(s, FirstDotFrom(s, 1) + 1, Len(s))

----------------------------------------------------------------------------
(* FileValidator *)

ALLOWED_EXTENSIONS ==
    { <<"t", "x", "t">>, <<"p", "d", "f">>, <<"d", "o", "c">>,
      <<"d", "o", "c", "x">>, <<"j", "p", "g">>, <<"j", "p", "e", "g">>,
      <<"p", "n", "g">> }

allowed_file_first_dot(filename) ==
    HasDot(filename) /\ Lower(SplitExt(filename)) \in ALLOWED_EXTENSIONS

allowed_file(filename) ==
    HasDot(filename) /\ Lower(RSplitExt(filename)) \in ALLOWED_EXTENSIONS

----------------------------------------------------------------------------
(* UploadStore *)

UPLOAD_FOLDER == "static/uploads/"

SYLLABUS_PREFIX == <<"s", "y", "l", "l", "a", "b", "u", "s", "_">>

\* the characters secure_filename keeps: [A-Za-z0-9_.-]
SafeChars ==
    { "a", "b", "c", "d", "e", "f", "g", "h", "i", "j", "k", "l", "m", "n", "o",
      "p", "q", "r", "s", "t", "u", "v", "w", "x", "y", "z",
      "A", "B", "C", "D", "E", "F", "G", "H", "I", "J", "K", "L", "M", "N", "O",
      "P", "Q", "R", "S", "T", "U", "V", "W", "X", "Y", "Z",
      "0", "1", "2", "3", "4", "5", "6", "7", "8", "9", "_", ".", "-" }

\* filename.replace(os.sep, " ")
ReplaceSep(s) == [i \in 1..Len(s) |-> IF s[i] = "/" THEN " " ELSE s[i]]

RECURSIVE SkipSpaces(_)
SkipSpaces(s) ==
    IF s = <<>> THEN s
    ELSE IF Head(s) = " " THEN SkipSpaces(Tail(s))
    ELSE s

\* "_".join(s.split()) for s without leading whitespace
RECURSIVE JoinFrom(_)
JoinFrom(s) ==
    IF s = <<>> THEN <<>>
    ELSE IF Head(s) = " "
         THEN LET rest == SkipSpaces(s)
              IN  IF rest = <<>> THEN <<>> ELSE <<"_">> \o JoinFrom(rest)
         ELSE <<Head(s)>> \o JoinFrom(Tail(s))

\* "_".join(s.split())
JoinWords(s) == JoinFrom(SkipSpaces(s))

IsSafeChar(c) == c \in SafeChars

RECURSIVE StripLeft(_)
StripLeft(s) ==
    IF s = <<>> THEN s
    ELSE IF Head(s) \in {".", "_"} THEN StripLeft(Tail(s))
    ELSE s

RECURSIVE StripRight(_)
StripRight(s) ==
    IF s = <<>> THEN s
    ELSE IF s[Len(s)] \in {".", "_"} THEN StripRight(SubSeq(s, 1, Len(s) - 1))
    ELSE s

\* werkzeug.utils.secure_filename: separators become "_" between words, unsafe
\* characters are dropped, leading and trailing "." and "_" are stripped
secure_filename(s) ==
    StripRight(StripLeft(SelectSeq(JoinWords(ReplaceSep(s)), IsSafeChar)))

\* a stored path that also names the worker writing it
upload_path_per_worker(r, raw) ==
    [dir |-> UPLOAD_FOLDER, name |-> secure_filename(raw), worker |-> r]

\* os.path.join(app.config['UPLOAD_FOLDER'], filename) in upload_file
upload_path(r, raw) ==
    [dir |-> UPLOAD_FOLDER, name |-> secure_filename(raw)]

\* os.path.join(app.config['UPLOAD_FOLDER'], f"syllabus_{filename}")
syllabus_path(r, raw) ==
    [dir |-> UPLOAD_FOLDER, name |-> SYLLABUS_PREFIX \o secure_filename(raw)]

\* file.save(filepath): the file at filepath now holds content
Save(d, path, content) ==
    [p \in DOMAIN d \cup {path} |-> IF p = path THEN content ELSE d[p]]

----------------------------------------------------------------------------
(* ContentExtractor *)

CONTENT_LIMIT == 1000
PREVIEW_LIMIT == 500

\* the contents a client uploads in the concurrent model
Contents == {"c1", "c2"}

\* process_uploaded_file: the plain text of a stored file
ExtractText(content) ==
    CASE content = "c1" -> <<"o", "n", "e">>
      [] content = "c2" -> <<"t", "w">>
      [] OTHER -> <<>>

ErrMsgs == {"boom"}

----------------------------------------------------------------------------
(* Responses *)

NoResponse == [status |-> 0, by |-> "none", body |-> [none |-> TRUE]]

\* jsonify(body), status
JsonResponse(status, body) == [status |-> status, by |-> "handler", body |-> body]

ErrorResponse(status, message) == JsonResponse(status, [error |-> message])

\* an exception left the handler: Flask answers with its own error page
FrameworkResponse(status, exception) ==
    [status |-> status, by |-> "framework", body |-> [exception |-> exception]]

content_field_ge(text) ==
    IF Len(text) >= CONTENT_LIMIT
    THEN SubSeq(text, 1, CONTENT_LIMIT) \o Ellipsis
    ELSE text

\* text_content[:1000] + "..." if len(text_content) > 1000 else text_content
content_field(text) ==
    IF Len(text) > CONTENT_LIMIT
    THEN SubSeq(text, 1, CONTENT_LIMIT) \o Ellipsis
    ELSE text

\* text_content[:500] + "..." if len(text_content) > 500 else text_content
preview_field(text) ==
    IF Len(text) > PREVIEW_LIMIT
    THEN SubSeq(text, 1, PREVIEW_LIMIT) \o Ellipsis
    ELSE text

upload_file_success(filename, text) ==
    JsonResponse(200, [success |-> TRUE, filename |-> filename,
                       content |-> content_field(text),
                       message |-> "File processed successfully"])

upload_syllabus_success(filename, text) ==
    JsonResponse(200, [success |-> TRUE, filename |-> filename,
                       message |-> "Syllabus material embedded successfully",
                       preview |-> preview_field(text)])

----------------------------------------------------------------------------
(* Requests *)

WorkerIds == 1..Workers

PyNone == "<None>"

\* dict.get(key, default) / request.form.get(key, default)
Get(d, key, default) == IF key \in DOMAIN d THEN d[key] ELSE default

\* Python truthiness of the values that occur here
Truthy(v) == v \notin {PyNone, "False", "", "0"}

NTxt == <<"n", ".", "t", "x", "t">>
SlashNTxt == <<"/", "n", ".", "t", "x", "t">>
NExe == <<"n", ".", "e", "x", "e">>

DefaultForm == [other |-> "x"]
FullForm == [education_level |-> "college", subject |-> "math"]

\* the multipart requests tried: without a `file` part, with an empty filename,
\* with a disallowed extension, and two allowed files of different content whose
\* names sanitize to the same stored name
UploadInputs ==
    { [has_file |-> FALSE, filename |-> <<>>, content |-> "none", form |-> DefaultForm],
      [has_file |-> TRUE, filename |-> <<>>, content |-> "c1", form |-> DefaultForm],
      [has_file |-> TRUE, filename |-> NExe, content |-> "c1", form |-> DefaultForm],
      [has_file |-> TRUE, filename |-> NTxt, content |-> "c1", form |-> DefaultForm],
      [has_file |-> TRUE, filename |-> SlashNTxt, content |-> "c2", form |-> FullForm] }

\* request.json: no JSON body, null, an array, or an object
GenerateBodies ==
    { [kind |-> "absent", obj |-> [other |-> "x"]],
      [kind |-> "null", obj |-> [other |-> "x"]],
      [kind |-> "array", obj |-> [other |-> "x"]],
      [kind |-> "object", obj |-> [other |-> "x"]],
      [kind |-> "object", obj |-> [topic |-> ""]],
      [kind |-> "object", obj |-> [topic |-> "Photosynthesis"]],
      [kind |-> "object", obj |-> [topic |-> "Photosynthesis", content_type |-> "quiz"]] }

ChatBodies ==
    { [kind |-> "null", obj |-> [other |-> "x"]],
      [kind |-> "object", obj |-> [other |-> "x"]],
      [kind |-> "object", obj |-> [question |-> ""]],
      [kind |-> "object", obj |-> [question |-> "Why?", context |-> "notes"]] }

Idle ==
    [route |-> "none", pc |-> "idle", input |-> [kind |-> "none"],
     text |-> <<>>, calls |-> <<>>, resp |-> NoResponse]

Resting(r) == req[r].pc \in {"idle", "done"}

\* the next request goes to the first worker that is not in the middle of one
Free(r) ==
    /\ started < MaxRequests
    /\ Resting(r)
    /\ \A q \in WorkerIds : q < r => ~Resting(q)

\* one call of an external operation, as the handler saw it end
Returned(op, ret) == [op |-> op, raised |-> FALSE, ret |-> ret, msg |-> ""]
Raised(op, msg) == [op |-> op, raised |-> TRUE, ret |-> PyNone, msg |-> msg]

\* the handler returns, or an exception leaves it
Done(route, input, text, calls, resp) ==
    [route |-> route, pc |-> "done", input |-> input, text |-> text,
     calls |-> calls, resp |-> resp]

At(route, pc, input, text, calls) ==
    [route |-> route, pc |-> pc, input |-> input, text |-> text,
     calls |-> calls, resp |-> NoResponse]

OthersUnchanged == UNCHANGED <<fn_in, fn_out>>

----------------------------------------------------------------------------
(* AIGateway: learnova_ai and learnova_ai.ai_processor *)

Material(name, text, metadata) == [name |-> name, text |-> text, metadata |-> metadata]

\* add_syllabus_materials(name, text, metadata) returning ret
add_syllabus_materials(st, name, text, metadata, ret) ==
    IF Truthy(ret) THEN st \cup {Material(name, text, metadata)} ELSE st

\* list_uploaded_syllabus()
list_uploaded_syllabus(st) == st

AddReturns == {"True", "False"}

Generated == "generated text"

----------------------------------------------------------------------------
(* POST /api/upload *)

upload_file_validate_no_empty_check(input) ==
    IF ~input.has_file THEN <<"No file uploaded">>
    ELSE IF input.filename # <<>> /\ allowed_file(input.filename) THEN <<>>
    ELSE <<"Invalid file type">>

\* the three checks of upload_file, in order; <<>> when the request passes
upload_file_validate(input) ==
    IF ~input.has_file THEN <<"No file uploaded">>
    ELSE IF input.filename = <<>> THEN <<"No file selected">>
    ELSE IF input.filename # <<>> /\ allowed_file(input.filename) THEN <<>>
    ELSE <<"Invalid file type">>

\* validation, then file.save(filepath)
upload_file_save(r) ==
    /\ Free(r)
    /\ \E input \in UploadInputs :
         LET problem == upload_file_validate(input) IN
         IF problem # <<>>
         THEN /\ req' = [req EXCEPT ![r] =
                    Done("upload", input, <<>>, <<>>, ErrorResponse(400, problem))]
              /\ disk' = disk
         ELSE \/ /\ disk' = Save(disk, upload_path(r, input.filename), input.content)
                 /\ req' = [req EXCEPT ![r] =
                       At("upload", "saved", input, <<>>, <<Returned("save", PyNone)>>)]
              \/ \E msg \in ErrMsgs :
                 /\ disk' = disk
                 /\ req' = [req EXCEPT ![r] =
                       Done("upload", input, <<>>, <<Raised("save", msg)>>,
                            FrameworkResponse(500, msg))]
    /\ started' = started + 1
    /\ UNCHANGED <<store, listed>>
    /\ OthersUnchanged

\* process_uploaded_file(filepath), then the response
upload_file_process(r) ==
    /\ req[r].route = "upload"
    /\ req[r].pc = "saved"
    /\ LET input == req[r].input
           text == ExtractText(disk[upload_path(r, input.filename)])
       IN  \/ req' = [req EXCEPT ![r] =
                 Done("upload", input, text,
                      Append(req[r].calls, Returned("process_uploaded_file", "text")),
                      upload_file_success(secure_filename(input.filename), text))]
           \/ \E msg \in ErrMsgs :
              req' = [req EXCEPT ![r] =
                 Done("upload", input, <<>>,
                      Append(req[r].calls, Raised("process_uploaded_file", msg)),
                      ErrorResponse(500, <<"Error processing file: ", msg>>))]
    /\ UNCHANGED <<disk, store, started, listed>>
    /\ OthersUnchanged

----------------------------------------------------------------------------
(* POST /api/syllabus/upload *)

upload_syllabus_validate_any_type(input) ==
    IF ~input.has_file THEN <<"No file uploaded">>
    ELSE IF input.filename = <<>> THEN <<"No file selected">>
    ELSE <<>>

\* the three checks of upload_syllabus, in order; <<>> when the request passes
upload_syllabus_validate(input) ==
    IF ~input.has_file THEN <<"No file uploaded">>
    ELSE IF input.filename = <<>> THEN <<"No file selected">>
    ELSE IF input.filename # <<>> /\ allowed_file(input.filename) THEN <<>>
    ELSE <<"Invalid file type">>

\* validation, then file.save(filepath)
upload_syllabus_save(r) ==
    /\ Free(r)
    /\ \E input \in UploadInputs :
         LET problem == upload_syllabus_validate(input) IN
         IF problem # <<>>
         THEN /\ req' = [req EXCEPT ![r] =
                    Done("syllabus", input, <<>>, <<>>, ErrorResponse(400, problem))]
              /\ disk' = disk
         ELSE \/ /\ disk' = Save(disk, syllabus_path(r, input.filename), input.content)
                 /\ req' = [req EXCEPT ![r] =
                       At("syllabus", "saved", input, <<>>, <<Returned("save", PyNone)>>)]
              \/ \E msg \in ErrMsgs :
                 /\ disk' = disk
                 /\ req' = [req EXCEPT ![r] =
                       Done("syllabus", input, <<>>, <<Raised("save", msg)>>,
                            FrameworkResponse(500, msg))]
    /\ started' = started + 1
    /\ UNCHANGED <<store, listed>>
    /\ OthersUnchanged

\* what upload_syllabus does when process_uploaded_file raises
extraction_failed_ignored(r, msg) ==
    At("syllabus", "extracted", req[r].input, <<>>,
       Append(req[r].calls, Raised("process_uploaded_file", msg)))

extraction_failed(r, msg) ==
    Done("syllabus", req[r].input, <<>>,
         Append(req[r].calls, Raised("process_uploaded_file", msg)),
         ErrorResponse(500, <<"Error processing syllabus: ", msg>>))

\* text_content = process_uploaded_file(filepath)
upload_syllabus_extract(r) ==
    /\ req[r].route = "syllabus"
    /\ req[r].pc = "saved"
    /\ LET input == req[r].input
           text == ExtractText(disk[syllabus_path(r, input.filename)])
       IN  \/ req' = [req EXCEPT ![r] =
                 At("syllabus", "extracted", input, text,
                    Append(req[r].calls, Returned("process_uploaded_file", "text")))]
           \/ \E msg \in ErrMsgs :
              req' = [req EXCEPT ![r] = extraction_failed(r, msg)]
    /\ UNCHANGED <<disk, store, started, listed>>
    /\ OthersUnchanged

\* the response of upload_syllabus once add_syllabus_materials returned success
syllabus_added_always_ok(filename, text, success) ==
    upload_syllabus_success(filename, text)

syllabus_added(filename, text, success) ==
    IF Truthy(success)
    THEN upload_syllabus_success(filename, text)
    ELSE ErrorResponse(500, <<"Failed to process syllabus material">>)

\* metadata, add_syllabus_materials(filename, text_content, metadata), the response
upload_syllabus_add(r) ==
    /\ req[r].route = "syllabus"
    /\ req[r].pc = "extracted"
    /\ LET input == req[r].input
           filename == secure_filename(input.filename)
           text == req[r].text
           metadata == [education_level |-> Get(input.form, "education_level", "high_school"),
                        subject |-> Get(input.form, "subject", "general"),
                        upload_date |-> started]
       IN  \/ \E success \in AddReturns :
              /\ store' = add_syllabus_materials(store, filename, text, metadata, success)
              /\ req' = [req EXCEPT ![r] =
                    Done("syllabus", input, text,
                         Append(req[r].calls, Returned("add_syllabus_materials", success)),
                         syllabus_added(filename, text, success))]
           \/ \E msg \in ErrMsgs :
              /\ store' = store
              /\ req' = [req EXCEPT ![r] =
                    Done("syllabus", input, text,
                         Append(req[r].calls, Raised("add_syllabus_materials", msg)),
                         ErrorResponse(500, <<"Error processing syllabus: ", msg>>))]
    /\ listed' = <<>>
    /\ UNCHANGED <<disk, started>>
    /\ OthersUnchanged

----------------------------------------------------------------------------
(* GET /api/syllabus/list *)

\* a listing that drops the materials it returns from the store
list_syllabus_draining(r) ==
    /\ Free(r)
    /\ req' = [req EXCEPT ![r] =
          Done("list", [kind |-> "none"], <<>>,
               <<Returned("list_uploaded_syllabus", "materials")>>,
               JsonResponse(200, [success |-> TRUE,
                                  materials |-> list_uploaded_syllabus(store)]))]
    /\ listed' = Append(listed, list_uploaded_syllabus(store))
    /\ store' = {}
    /\ started' = started + 1
    /\ UNCHANGED disk
    /\ OthersUnchanged

list_syllabus(r) ==
    /\ Free(r)
    /\ \/ /\ req' = [req EXCEPT ![r] =
                Done("list", [kind |-> "none"], <<>>,
                     <<Returned("list_uploaded_syllabus", "materials")>>,
                     JsonResponse(200, [success |-> TRUE,
                                        materials |-> list_uploaded_syllabus(store)]))]
          /\ listed' = Append(listed, list_uploaded_syllabus(store))
       \/ \E msg \in ErrMsgs :
          /\ req' = [req EXCEPT ![r] =
                Done("list", [kind |-> "none"], <<>>,
                     <<Raised("list_uploaded_syllabus", msg)>>,
                     ErrorResponse(500, <<"Error listing materials: ", msg>>))]
          /\ listed' = listed
    /\ started' = started + 1
    /\ UNCHANGED <<disk, store>>
    /\ OthersUnchanged

----------------------------------------------------------------------------
(* POST /api/generate-content and POST /api/chat *)

\* data = request.json; data.get(...): what leaves the handler before its try
\* block.  Flask raises for a request without a JSON body (400 or 415, by the
\* request's content type); None and a list have no .get
BodyFailures(body) ==
    CASE body.kind = "absent" ->
            {FrameworkResponse(400, "BadRequest"),
             FrameworkResponse(415, "UnsupportedMediaType")}
      [] body.kind \in {"null", "array"} ->
            {FrameworkResponse(500, "AttributeError")}
      [] OTHER -> {}

\* the check on the required field, skipped
required_unchecked(value, message) == <<>>

\* if not topic / if not question
required(value, message) == IF ~Truthy(value) THEN <<message>> ELSE <<>>

generate_content(r) ==
    /\ Free(r)
    /\ \E body \in GenerateBodies :
         IF BodyFailures(body) # {}
         THEN \E resp \in BodyFailures(body) :
                req' = [req EXCEPT ![r] = Done("generate", body, <<>>, <<>>, resp)]
         ELSE LET data == body.obj
                  topic == Get(data, "topic", PyNone)
                  education_level == Get(data, "education_level", "high_school")
                  reference_material == Get(data, "reference_material", "")
                  content_type == Get(data, "content_type", "explanation")
                  problem == required(topic, "Topic is required")
              IN  IF problem # <<>>
                  THEN req' = [req EXCEPT ![r] =
                          Done("generate", body, <<>>, <<>>, ErrorResponse(400, problem))]
                  ELSE \/ req' = [req EXCEPT ![r] =
                             Done("generate", body, <<>>,
                                  <<Returned("generate_content", Generated)>>,
                                  JsonResponse(200, [success |-> TRUE,
                                                     content |-> Generated,
                                                     content_type |-> content_type]))]
                       \/ \E msg \in ErrMsgs :
                          req' = [req EXCEPT ![r] =
                             Done("generate", body, <<>>,
                                  <<Raised("generate_content", msg)>>,
                                  ErrorResponse(500, <<"Error generating content: ", msg>>))]
    /\ started' = started + 1
    /\ UNCHANGED <<disk, store, listed>>
    /\ OthersUnchanged

chat(r) ==
    /\ Free(r)
    /\ \E body \in ChatBodies :
         IF BodyFailures(body) # {}
         THEN \E resp \in BodyFailures(body) :
                req' = [req EXCEPT ![r] = Done("chat", body, <<>>, <<>>, resp)]
         ELSE LET data == body.obj
                  question == Get(data, "question", PyNone)
                  education_level == Get(data, "education_level", "high_school")
                  context == Get(data, "context", "")
                  problem == required(question, "Question is required")
              IN  IF problem # <<>>
                  THEN req' = [req EXCEPT ![r] =
                          Done("chat", body, <<>>, <<>>, ErrorResponse(400, problem))]
                  ELSE \/ req' = [req EXCEPT ![r] =
                             Done("chat", body, <<>>,
                                  <<Returned("chat", Generated)>>,
                                  JsonResponse(200, [success |-> TRUE,
                                                     response |-> Generated]))]
                       \/ \E msg \in ErrMsgs :
                          req' = [req EXCEPT ![r] =
                             Done("chat", body, <<>>,
                                  <<Raised("chat", msg)>>,
                                  ErrorResponse(500, <<"Error in chat: ", msg>>))]
    /\ started' = started + 1
    /\ UNCHANGED <<disk, store, listed>>
    /\ OthersUnchanged

----------------------------------------------------------------------------
(* GET /api/health and GET / *)

health_check(r) ==
    /\ Free(r)
    /\ req' = [req EXCEPT ![r] =
          Done("health", [kind |-> "none"], <<>>, <<>>,
               JsonResponse(200, [status |-> "healthy",
                                  message |-> "Learnova AI is running!"]))]
    /\ started' = started + 1
    /\ UNCHANGED <<disk, store, listed>>
    /\ OthersUnchanged

home(r) ==
    /\ Free(r)
    /\ req' = [req EXCEPT ![r] =
          Done("home", [kind |-> "none"], <<>>, <<>>,
               [status |-> 200, by |-> "handler", body |-> [page |-> "index.html"]])]
    /\ started' = started + 1
    /\ UNCHANGED <<disk, store, listed>>
    /\ OthersUnchanged

----------------------------------------------------------------------------
(* The server *)

NoInput == [kind |-> "none"]

Init ==
    /\ req = [r \in WorkerIds |-> Idle]
    /\ disk = <<>>
    /\ store = {}
    /\ started = 0
    /\ listed = <<>>
    /\ fn_in = NoInput
    /\ fn_out = NoInput

Next ==
    \E r \in WorkerIds :
        \/ upload_file_save(r)
        \/ upload_file_process(r)
        \/ upload_syllabus_save(r)
        \/ upload_syllabus_extract(r)
        \/ upload_syllabus_add(r)
        \/ list_syllabus(r)
        \/ generate_content(r)
        \/ chat(r)
        \/ health_check(r)
        \/ home(r)

Spec == Init /\ [][Next]_vars

----------------------------------------------------------------------------
(* allowed_file on its own: every filename built from the parts below *)

NameParts ==
    { <<>>, <<"n">>, <<"t", "x">>, <<"e", "x", "e">>, <<"t", "x", "t", "x">>,
      <<"t", "x", "t">>, <<"T", "X", "T">>, <<"P", "d", "f">>, <<"d", "o", "c">>,
      <<"D", "O", "C", "X">>, <<"j", "p", "g">>, <<"J", "p", "e", "g">>,
      <<"p", "n", "g">>, <<"p", "n", "g", " ">> }

\* ".".join(parts)
RECURSIVE JoinDots(_)
JoinDots(parts) ==
    IF Len(parts) = 1 THEN parts[1]
    ELSE parts[1] \o <<".">> \o JoinDots(Tail(parts))

TriedNames ==
    { JoinDots(parts) : parts \in UNION { [1..k -> NameParts] : k \in 1..MaxParts } }

InitAllowed ==
    /\ req = [r \in WorkerIds |-> Idle]
    /\ disk = <<>>
    /\ store = {}
    /\ started = 0
    /\ listed = <<>>
    /\ fn_in \in { [kind |-> "filename", value |-> n] : n \in TriedNames }
    /\ fn_out = NoInput

call_allowed_file ==
    /\ fn_in.kind = "filename"
    /\ fn_out = NoInput
    /\ fn_out' = [kind |-> "verdict", value |-> allowed_file(fn_in.value)]
    /\ UNCHANGED <<req, disk, store, started, listed, fn_in>>

NextAllowed == call_allowed_file

SpecAllowed == InitAllowed /\ [][NextAllowed]_vars

----------------------------------------------------------------------------
(* The success bodies on their own: texts around each limit *)

TextChar(pattern, i) ==
    CASE pattern = 1 -> "a"
      [] pattern = 2 -> IF i % 2 = 0 THEN "a" ELSE "b"
      [] OTHER -> "."

Text(n, pattern) == [i \in 1..n |-> TextChar(pattern, i)]

TriedLengths ==
    (0..Slack)
    \cup ((PREVIEW_LIMIT - Slack)..(PREVIEW_LIMIT + Slack))
    \cup ((CONTENT_LIMIT - Slack)..(CONTENT_LIMIT + Slack))
    \cup ((MaxText - Slack)..MaxText)

InitTruncate ==
    /\ req = [r \in WorkerIds |-> Idle]
    /\ disk = <<>>
    /\ store = {}
    /\ started = 0
    /\ listed = <<>>
    /\ fn_in \in { [kind |-> "text", value |-> Text(n, p)] :
                     n \in TriedLengths, p \in 1..3 }
    /\ fn_out = NoInput

\* the response upload_file builds from the extracted text
upload_file_respond ==
    /\ fn_in.kind = "text"
    /\ fn_out = NoInput
    /\ fn_out' = [kind |-> "upload",
                  value |-> upload_file_success(secure_filename(NTxt), fn_in.value)]
    /\ UNCHANGED <<req, disk, store, started, listed, fn_in>>

\* the response upload_syllabus builds from the extracted text
upload_syllabus_respond ==
    /\ fn_in.kind = "text"
    /\ fn_out = NoInput
    /\ fn_out' = [kind |-> "syllabus",
                  value |-> syllabus_added(secure_filename(NTxt), fn_in.value, "True")]
    /\ UNCHANGED <<req, disk, store, started, listed, fn_in>>

NextTruncate == upload_file_respond \/ upload_syllabus_respond

SpecTruncate == InitTruncate /\ [][NextTruncate]_vars

----------------------------------------------------------------------------
(* Claims *)

IsUploadRoute(q) == q.route \in {"upload", "syllabus"}

\* the stored path of an upload request, written out: the upload folder, the
\* route's prefix, the sanitized name
SharedPath(q) ==
    [dir |-> "static/uploads/",
     name |-> (IF q.route = "syllabus" THEN SYLLABUS_PREFIX ELSE <<>>)
              \o secure_filename(q.input.filename)]

\* the validation message a multipart request must get, <<>> when it passes
Expected400(input) ==
    CASE ~input.has_file -> <<"No file uploaded">>
      [] input.has_file /\ input.filename = <<>> -> <<"No file selected">>
      [] input.has_file /\ input.filename # <<>> /\ ~allowed_file(input.filename) ->
            <<"Invalid file type">>
      [] OTHER -> <<>>

\* C1: on both upload routes the checks run in the order file part, filename,
\* extension, the first failing one gives the 400 response, and a request that
\* fails one writes no file and calls neither the extractor nor the gateway.
C1_ValidationOrder ==
    [][\A r \in WorkerIds :
         (req'[r] # req[r] /\ IsUploadRoute(req'[r])
            /\ Expected400(req'[r].input) # <<>>)
         => /\ req'[r].pc = "done"
            /\ req'[r].resp.status = 400
            /\ req'[r].resp.by = "handler"
            /\ req'[r].resp.body = [error |-> Expected400(req'[r].input)]
            /\ req'[r].calls = <<>>
            /\ disk' = disk
            /\ store' = store]_vars

C1_Witness ==
    \E r \in WorkerIds :
        /\ req[r].route = "syllabus" /\ req[r].pc = "done"
        /\ req[r].input.has_file /\ req[r].input.filename = <<>>
        /\ req[r].resp.body = [error |-> <<"No file selected">>]

\* C2: allowed_file(f) is true exactly when f holds a '.' and the part after
\* its last '.', lower-cased, is one of the seven allowed extensions.
C2_AllowedFile ==
    fn_out.kind = "verdict" =>
        LET f == fn_in.value IN
        fn_out.value <=>
            \E i \in 1..Len(f) :
                /\ f[i] = "."
                /\ \A j \in (i + 1)..Len(f) : f[j] # "."
                /\ \E e \in ALLOWED_EXTENSIONS :
                     /\ Len(e) = Len(f) - i
                     /\ \A k \in 1..Len(e) : LowerChar(f[i + k]) = e[k]

C2_Witness ==
    /\ fn_out.kind = "verdict"
    /\ fn_out.value = TRUE
    /\ Cardinality({i \in 1..Len(fn_in.value) : fn_in.value[i] = "."}) >= 2
    /\ \E i \in 1..Len(fn_in.value) : fn_in.value[i] \in UpperCase

\* the truncation law for one text, one field and one limit
Truncated(t, c, limit) ==
    /\ Len(t) <= limit => c = t
    /\ Len(t) > limit =>
         /\ Len(c) = limit + 3
         /\ \A i \in 1..limit : c[i] = t[i]
         /\ \A i \in (limit + 1)..(limit + 3) : c[i] = "."

\* C3: the success body of /api/upload carries the first 1000 characters of the
\* text followed by "..." when the text is longer than 1000, and the text itself
\* otherwise; the preview of /api/syllabus/upload does the same with 500.
C3_Truncation ==
    /\ fn_out.kind = "upload" =>
         /\ fn_out.value.status = 200
         /\ Truncated(fn_in.value, fn_out.value.body.content, 1000)
    /\ fn_out.kind = "syllabus" =>
         /\ fn_out.value.status = 200
         /\ Truncated(fn_in.value, fn_out.value.body.preview, 500)

C3_Witness ==
    /\ fn_out.kind = "upload"
    /\ Len(fn_in.value) = 1000
    /\ fn_out.value.body.content = fn_in.value

\* C4: no exception leaves a handler: every request ends with a response the
\* handler itself returned.
C4_AllErrorsCaught ==
    \A r \in WorkerIds : req[r].pc = "done" => req[r].resp.by = "handler"

\* C5: on /api/syllabus/upload, once extraction succeeded, the response is the
\* 200 body exactly when add_syllabus_materials returned a truthy value, 500
\* 'Failed to process syllabus material' when it returned false, and 500
\* 'Error processing syllabus: <message>' when it raised.
C5_SyllabusOutcome ==
    \A r \in WorkerIds :
        (req[r].route = "syllabus" /\ req[r].pc = "done"
           /\ Len(req[r].calls) >= 2 /\ ~req[r].calls[2].raised)
        => /\ Len(req[r].calls) = 3
           /\ LET add == req[r].calls[3]
                  resp == req[r].resp
              IN  /\ add.op = "add_syllabus_materials"
                  /\ resp.by = "handler"
                  /\ resp.status = 200 <=> (~add.raised /\ add.ret = "True")
                  /\ resp.status = 200 => resp.body.success = TRUE
                  /\ (~add.raised /\ add.ret = "False") =>
                        /\ resp.status = 500
                        /\ resp.body = [error |-> <<"Failed to process syllabus material">>]
                  /\ add.raised =>
                        /\ resp.status = 500
                        /\ resp.body = [error |-> <<"Error processing syllabus: ", add.msg>>]

C5_Witness ==
    \E r \in WorkerIds :
        /\ req[r].route = "syllabus" /\ req[r].pc = "done"
        /\ Len(req[r].calls) = 3
        /\ ~req[r].calls[3].raised /\ req[r].calls[3].ret = "False"
        /\ req[r].resp.status = 500

\* the required field of a JSON route
RequiredField(q) == IF q.route = "generate" THEN "topic" ELSE "question"

Absent(q) ==
    \/ RequiredField(q) \notin DOMAIN q.input.obj
    \/ q.input.obj[RequiredField(q)] = ""

\* C6: with a JSON object body, a missing or empty topic (question) gives 400
\* 'Topic is required' ('Question is required') without a gateway call; with the
\* field present and the gateway succeeding the response is 200 with success
\* true, and generate-content echoes content_type, "explanation" by default.
C6_RequiredFields ==
    \A r \in WorkerIds :
        (req[r].route \in {"generate", "chat"} /\ req[r].pc = "done"
           /\ req[r].input.kind = "object")
        => LET q == req[r] IN
           /\ Absent(q) =>
                /\ q.resp.status = 400
                /\ q.resp.by = "handler"
                /\ q.resp.body =
                     [error |-> <<IF q.route = "generate" THEN "Topic is required"
                                  ELSE "Question is required">>]
                /\ q.calls = <<>>
           /\ ~Absent(q) =>
                /\ Len(q.calls) = 1
                /\ ~q.calls[1].raised =>
                     /\ q.resp.status = 200
                     /\ q.resp.body.success = TRUE
                     /\ q.route = "generate" =>
                          q.resp.body.content_type =
                            (IF "content_type" \in DOMAIN q.input.obj
                             THEN q.input.obj.content_type ELSE "explanation")

C6_Witness ==
    \E r, w \in WorkerIds :
        /\ req[r].route = "generate" /\ req[r].pc = "done"
        /\ req[r].input.kind = "object" /\ Absent(req[r])
        /\ req[r].resp.status = 400
        /\ req[w].route = "generate" /\ req[w].pc = "done"
        /\ req[w].input.kind = "object" /\ ~Absent(req[w])
        /\ "content_type" \notin DOMAIN req[w].input.obj
        /\ req[w].resp.status = 200
        /\ req[w].resp.body.content_type = "explanation"

\* C7: the listings made with no syllabus upload between them return the same
\* material set, and a listing leaves the stored materials as they were.
C7_ListIdempotent ==
    [][/\ \A i, j \in 1..Len(listed') : listed'[i] = listed'[j]
       /\ Len(listed') > Len(listed) => store' = store]_vars

C7_Witness ==
    /\ Len(listed) >= 2
    /\ listed[1] # {}
    /\ listed[2] = listed[1]

\* C8: within one request each external operation is called at most once, and a
\* call that fails is the request's last: the request ends there with an error
\* response.
C8_NoRetry ==
    \A r \in WorkerIds :
        LET c == req[r].calls IN
        /\ \A i, j \in 1..Len(c) : i # j => c[i].op # c[j].op
        /\ \A i \in 1..Len(c) :
             c[i].raised =>
                /\ i = Len(c)
                /\ req[r].pc = "done"
                /\ req[r].resp.status >= 400

C8_Witness ==
    \E r \in WorkerIds :
        /\ req[r].route = "syllabus" /\ req[r].pc = "done"
        /\ Len(req[r].calls) = 2
        /\ req[r].calls[2].op = "process_uploaded_file"
        /\ req[r].calls[2].raised
        /\ req[r].resp.status = 500

\* C9: a handler extracts from the one path its route and sanitized filename
\* give, which it shares with every request of the same name: the text it gets
\* is that of the file last saved there, by whichever request.
C9_ExtractsSharedPath ==
    [][\A r \in WorkerIds :
         (IsUploadRoute(req[r]) /\ req[r].pc = "saved" /\ req'[r].pc # "saved"
            /\ ~req'[r].calls[2].raised)
         => /\ SharedPath(req[r]) \in DOMAIN disk
            /\ req'[r].text = ExtractText(disk[SharedPath(req[r])])]_vars

\* request a saved, request b saved over it, and a answered with b's text
C9_Witness ==
    \E a, b \in WorkerIds :
        /\ a # b
        /\ req[a].route = "upload" /\ req[b].route = "upload"
        /\ req[a].pc = "done" /\ req[a].resp.status = 200
        /\ req[b].pc \in {"saved", "done"}
        /\ SharedPath(req[a]) = SharedPath(req[b])
        /\ req[a].input.content # req[b].input.content
        /\ req[a].resp.body.content = ExtractText(req[b].input.content)
        /\ req[a].resp.body.content # ExtractText(req[a].input.content)

\* C10: add_syllabus_materials is called only by /api/syllabus/upload, for a
\* request that passed the three checks, saved its file and extracted its text;
\* no other step changes the stored materials.
C10_StoreFrame ==
    [][/\ \A r \in WorkerIds :
            (\E i \in 1..Len(req'[r].calls) :
                 req'[r].calls[i].op = "add_syllabus_materials")
            => /\ req'[r].route = "syllabus"
               /\ Expected400(req'[r].input) = <<>>
               /\ Len(req'[r].calls) = 3
               /\ req'[r].calls[1].op = "save" /\ ~req'[r].calls[1].raised
               /\ req'[r].calls[2].op = "process_uploaded_file"
               /\ ~req'[r].calls[2].raised
       /\ store' # store =>
            \E r \in WorkerIds :
                /\ req[r].route = "syllabus" /\ req[r].pc = "extracted"
                /\ req'[r].pc = "done"
                /\ req'[r].calls[3].op = "add_syllabus_materials"]_vars

C10_Witness ==
    /\ store # {}
    /\ \E r \in WorkerIds :
         /\ req[r].route = "syllabus" /\ req[r].pc = "done"
         /\ req[r].resp.status = 200

====
